---- MODULE Spec2Model ----
(***************************************************************************)
(* WebAI backend (src/backend/index.js): the DOM sanitizer cleanHTML and   *)
(* the eight browser tools that share the module-level session state       *)
(* (browser, page, innerHTML).                                             *)
(*                                                                         *)
(* Markup is modelled as a forest of nodes.  A node is a record            *)
(*   [tag, id, attrs, kids, data]                                          *)
(* where a text node has tag "#text" and carries its characters in data,   *)
(* and an element carries its id attribute (0 = none), the set of its      *)
(* presentation attributes and its children.  A forest stands for the      *)
(* string obtained by serializing it left to right, so two adjacent text   *)
(* nodes stand for one run of characters.                                  *)
(***************************************************************************)
EXTENDS Integers, Sequences, FiniteSets, TLC

VARIABLES
    browser,    \* index.js:10, the browser handle (None = undefined)
    page,       \* index.js:11, the page handle (None = undefined)
    innerHTML,  \* index.js:12, the stored snapshot
    live,       \* driver: the browsers launched and not yet closed
    dom,        \* driver: the body of each browser's page
    calls,      \* the tool invocations in progress, one per slot
    last,       \* the outcome of the tool call that ended most recently
    overlapped, \* history: some call ran while another was in progress
    opened,     \* history: open was called since the last close returned
    launches,   \* history: browsers launched since close last cleared the session
    lastBody,   \* history: the page body after the last successful mutating call
    html,       \* sanitizer harness: the markup handed to cleanHTML
    out1,       \* sanitizer harness: cleanHTML(html), once computed
    out2,       \* sanitizer harness: cleanHTML(out1), once computed
    cpc         \* sanitizer harness: "in", "once" or "twice"

tvars == <<browser, page, innerHTML, live, dom, calls, last, overlapped, opened,
           launches, lastBody>>
cvars == <<html, out1, out2, cpc>>
vars == <<tvars, cvars>>

\* undefined, for a handle
None == 0

\* an undefined / a defined value of any other kind
Undef == [def |-> FALSE, v |-> <<>>]
Def(v) == [def |-> TRUE, v |-> v]

(***************************************************************************)
(* Tag sets                                                                *)
(***************************************************************************)
\* index.js:25, the selector of the elements that are removed outright
Denylist ==
    {"script", "style", "meta", "link", "noscript", "svg", "path", "iframe", "img", "canvas"}

\* index.js:31, the selector that makes a div worth keeping
Semantic ==
    {"a", "button", "input", "select", "textarea", "label", "form", "header",
     "footer", "main", "nav", "section", "article"}

\* Start tags the HTML tree builder places in <head> while no body content
\* has been seen yet ("before head" / "in head" insertion modes).
HeadTags ==
    {"base", "basefont", "bgsound", "link", "meta", "noframes", "noscript",
     "script", "style", "template", "title"}

\* Characters String.prototype.trim() strips, as far as the inputs use them
Whitespace == {" "}

IsText(n) == n.tag = "#text"

Text(chars) == [tag |-> "#text", id |-> 0, attrs |-> {}, kids |-> <<>>, data |-> chars]

Elem(tag, id, attrs, kids) ==
    [tag |-> tag, id |-> id, attrs |-> attrs, kids |-> kids, data |-> <<>>]

IsBlank(chars) == \A i \in 1..Len(chars) : chars[i] \in Whitespace

(***************************************************************************)
(* new JSDOM(html), index.js:15: the markup is parsed as a whole document. *)
(* Whitespace before the first content is dropped, leading head-only       *)
(* elements (and the whitespace between them) go to <head>, and everything *)
(* from the first other token on goes to <body>.                           *)
(***************************************************************************)
RECURSIVE DropBlankPrefix(_)
DropBlankPrefix(chars) ==
    IF chars # <<>> /\ Head(chars) \in Whitespace
    THEN DropBlankPrefix(Tail(chars))
    ELSE chars

RECURSIVE BodyOf(_)
BodyOf(f) ==
    IF f = <<>> THEN <<>>
    ELSE LET n == Head(f) IN
         IF IsText(n)
         THEN LET rest == DropBlankPrefix(n.data) IN
              IF rest = <<>> THEN BodyOf(Tail(f))
              ELSE <<Text(rest)>> \o Tail(f)
         ELSE IF n.tag \in HeadTags THEN BodyOf(Tail(f))
         ELSE f

(***************************************************************************)
(* el.removeAttribute(name) on every element carrying it, index.js:17-22   *)
(***************************************************************************)
RECURSIVE RemoveAttribute(_, _)
RemoveAttribute(f, name) ==
    [i \in 1..Len(f) |->
        IF IsText(f[i]) THEN f[i]
        ELSE [f[i] EXCEPT !.attrs = @ \ {name},
                          !.kids = RemoveAttribute(@, name)]]

(***************************************************************************)
(* querySelectorAll(denylist).forEach(el => el.remove()), index.js:23-27   *)
(***************************************************************************)
RECURSIVE RemoveDenylistedAll(_)
RemoveDenylistedAll(f) ==
    IF f = <<>> THEN <<>>
    ELSE LET n == Head(f) IN
         IF ~IsText(n) /\ n.tag \in Denylist
         THEN RemoveDenylistedAll(Tail(f))
         ELSE <<[n EXCEPT !.kids = RemoveDenylistedAll(@)]>> \o RemoveDenylistedAll(Tail(f))

RemoveDenylisted(f) == RemoveDenylistedAll(f)

\* node.textContent: the characters of all text descendants, in order
RECURSIVE TextContent(_)
TextContent(n) ==
    IF IsText(n) THEN n.data
    ELSE LET RECURSIVE Cat(_)
             Cat(ks) == IF ks = <<>> THEN <<>>
                        ELSE TextContent(Head(ks)) \o Cat(Tail(ks))
         IN Cat(n.kids)

\* div.querySelector(semantic selector): some descendant, not the div itself
RECURSIVE HasSemantic(_)
HasSemantic(n) ==
    \E i \in 1..Len(n.kids) :
        LET k == n.kids[i] IN
        ~IsText(k) /\ (k.tag \in Semantic \/ HasSemantic(k))

\* mutant: the test leaves out the semantic descendants
ShouldPruneBlankOnly(n) == IsBlank(TextContent(n))

\* The test of index.js:33
ShouldPrune(n) == ~HasSemantic(n) /\ IsBlank(TextContent(n))

(***************************************************************************)
(* querySelectorAll("div").forEach(...), index.js:29-36.  The list is in   *)
(* document order, so a div is visited before the divs inside it and its   *)
(* subtree is still as the denylist pass left it when the test is made.    *)
(***************************************************************************)
RECURSIVE PruneDivsAll(_)
PruneDivsAll(f) ==
    IF f = <<>> THEN <<>>
    ELSE LET n == Head(f) IN
         IF ~IsText(n) /\ n.tag = "div" /\ ShouldPrune(n)
         THEN PruneDivsAll(Tail(f))
         ELSE <<[n EXCEPT !.kids = PruneDivsAll(@)]>> \o PruneDivsAll(Tail(f))

PruneDivs(f) == PruneDivsAll(f)

(***************************************************************************)
(* document.body.innerHTML, index.js:37: the body's children written out   *)
(* as one string, in which neighbouring text nodes run together.           *)
(***************************************************************************)
RECURSIVE Serialize(_)
Serialize(f) ==
    IF f = <<>> THEN <<>>
    ELSE LET n == Head(f)
             rest == Serialize(Tail(f)) IN
         IF IsText(n)
         THEN IF rest # <<>> /\ IsText(Head(rest))
              THEN <<Text(n.data \o Head(rest).data)>> \o Tail(rest)
              ELSE <<n>> \o rest
         ELSE <<[n EXCEPT !.kids = Serialize(@)]>> \o rest

\* index.js:14-38
cleanHTML(h) ==
    Serialize(
        PruneDivs(
            RemoveDenylisted(
                RemoveAttribute(RemoveAttribute(BodyOf(Serialize(h)), "class"), "style"))))

(***************************************************************************)
(* Sanitizer inputs: every forest of at most MaxNodes nodes over the tags  *)
(* below, elements numbered by an id attribute in document order.          *)
(***************************************************************************)
MaxNodes == 3

InputTags == {"div", "a", "canvas", "title"}
InputTexts == {<<"x">>, <<" ">>}
InputAttrs(tag) == IF tag \in {"div", "a"} THEN {{}, {"class"}, {"style"}} ELSE {{}}

\* Markup the tree builder reads back as written: a title holds text only,
\* no anchor lies inside an anchor, and no two text nodes are neighbours.
RECURSIVE ForestsOfSize(_, _), TreesOfSize(_, _)
TreesOfSize(k, inAnchor) ==
    IF k = 0 THEN {}
    ELSE (IF k = 1 THEN {Text(c) : c \in InputTexts} ELSE {})
         \cup UNION {
              {Elem(t, 0, a, ks) :
                  a \in InputAttrs(t),
                  ks \in IF t = "title"
                         THEN {f \in ForestsOfSize(k - 1, inAnchor) :
                                   \A i \in 1..Len(f) : IsText(f[i])}
                         ELSE ForestsOfSize(k - 1, inAnchor \/ t = "a")} :
              t \in IF inAnchor THEN InputTags \ {"a"} ELSE InputTags}

ForestsOfSize(n, inAnchor) ==
    IF n = 0 THEN {<<>>}
    ELSE UNION {
             {<<p[1]>> \o p[2] :
                 p \in {q \in TreesOfSize(k, inAnchor) \X ForestsOfSize(n - k, inAnchor) :
                            ~(IsText(q[1]) /\ q[2] # <<>> /\ IsText(Head(q[2])))}} :
             k \in 1..n}

\* id attributes 1, 2, ... in document order; returns <<forest, next id>>
RECURSIVE Number(_, _)
Number(f, next) ==
    IF f = <<>> THEN <<<<>>, next>>
    ELSE LET n == Head(f) IN
         IF IsText(n)
         THEN LET r == Number(Tail(f), next) IN <<<<n>> \o r[1], r[2]>>
         ELSE LET k == Number(n.kids, next + 1)
                  r == Number(Tail(f), k[2])
              IN <<<<[n EXCEPT !.id = next, !.kids = k[1]]>> \o r[1], r[2]>>


(***************************************************************************)
(* The pages the browser can show.  Site(url) is the body the driver has   *)
(* after loading url; a page's scripts may rewrite the body when a button  *)
(* is clicked or a field is typed into.                                    *)
(***************************************************************************)
BodyBlank == <<>>

BodyForm ==
    << Elem("div", 0, {"class"},
            << Elem("label", 0, {}, <<Text(<<"Query">>)>>), Elem("input", 1, {}, <<>>) >>),
       Elem("div", 0, {"class"}, <<>>),
       Elem("button", 0, {"style"}, <<Text(<<"Go">>)>>) >>

BodyDone == << Elem("img", 0, {}, <<>>), Elem("p", 0, {"class"}, <<Text(<<"Done">>)>>) >>

Urls == {"u1", "u2"}
Site(url) == IF url = "u1" THEN BodyForm ELSE BodyDone

\* what the page's own scripts may turn the body into on a click / on input
AfterClick(body) == {body, BodyDone}
AfterFill(body) == {body, BodyDone}

\* the texts, button names and labels the agent may pass
Texts == {<<"Go">>, <<"zz">>}
Labels == {<<"Query">>, <<"zz">>}

\* driver: the number of elements of the given tags (any tag if tags = {})
\* whose own text is the given text
RECURSIVE Matches(_, _, _)
Matches(f, tags, text) ==
    IF f = <<>> THEN 0
    ELSE LET n == Head(f) IN
         (IF /\ ~IsText(n)
             /\ tags = {} \/ n.tag \in tags
             /\ \E i \in 1..Len(n.kids) : IsText(n.kids[i]) /\ n.kids[i].data = text
          THEN 1 ELSE 0)
         + Matches(n.kids, tags, text) + Matches(Tail(f), tags, text)

\* the labels of a body, index.js:87-92 (the text of every label)
RECURSIVE LabelsOf(_)
LabelsOf(f) ==
    IF f = <<>> THEN <<>>
    ELSE LET n == Head(f) IN
         (IF IsText(n) THEN <<>>
          ELSE (IF n.tag = "label" THEN <<TextContent(n)>> ELSE <<>>) \o LabelsOf(n.kids))
         \o LabelsOf(Tail(f))

(***************************************************************************)
(* Tool invocations.  An async tool body runs without interruption up to   *)
(* its next await; a step of the model is one such run.  The driver's part *)
(* of an awaited operation takes effect in the step that resumes the call. *)
(***************************************************************************)
MaxCalls == 2
MaxBrowsers == 2

Slots == 1..MaxCalls
Handles == 1..MaxBrowsers

SessionTools ==
    {"navigate", "find_input_labels", "find_element", "click_element",
     "submit_button", "fill_input"}

Mutating == {"navigate", "click_element", "fill_input", "submit_button"}

DriverOps == {"launch", "newPage", "close", "goto", "innerHTML", "count", "click", "fill"}

NoArg == <<>>

\* a slot with no call in it
Idle ==
    [tool |-> "none", pc |-> "idle", arg |-> NoArg, tgt |-> None, ops |-> {},
     pre |-> FALSE, after |-> "other", cnt |-> -1, val |-> Undef]

\* the outcome before any call has ended
NoCall ==
    [tool |-> "none", status |-> "none", ops |-> {}, pre |-> FALSE,
     after |-> "other", cnt |-> -1, val |-> Undef]

Busy(s) == calls[s].pc # "idle"
Quiet == \A s \in Slots : ~Busy(s)

\* The agent loop runs the tool calls of one model message side by side.  The
\* interleavings explored are those in which the calls that run side by side
\* are calls of the session holder's own two tools; every other tool is
\* started with no call in progress.
Concurrent == {"open", "close"}

\* a new call of tool t takes the lowest free slot
CanStart(s, t) ==
    /\ ~Busy(s)
    /\ \A r \in Slots : r < s => Busy(r)
    /\ Quiet \/ (t \in Concurrent /\ \A r \in Slots : Busy(r) => calls[r].tool \in Concurrent)

\* History is kept for as long as calls have come one at a time; from the
\* first overlap on it is no longer recorded.
Track(v, dflt) == IF overlapped' THEN dflt ELSE v
Keep(v, dflt) == IF overlapped THEN dflt ELSE v

\* what the call before was, as far as the next call's contract depends on it
Before ==
    IF last.tool \in {"open", "close"} /\ last.status = "ok" THEN last.tool ELSE "other"

\* the record of a call of tool t with argument a that starts now
Begin(t, a, pre) ==
    [tool |-> t, pc |-> "idle", arg |-> a, tgt |-> None, ops |-> {}, pre |-> pre,
     after |-> Track(Before, "other"), cnt |-> -1, val |-> Undef]

\* the call c ends with the given status and returned value
Outcome(c, status, val) ==
    [tool |-> c.tool, status |-> status, ops |-> c.ops, pre |-> c.pre,
     after |-> c.after, cnt |-> c.cnt, val |-> val]

\* the call c goes on to await driver operation op on handle h
Await(c, op, h) == [c EXCEPT !.pc = op, !.tgt = h, !.ops = @ \cup {op}]

\* a call starts in slot s: the history that a start touches
Started(s, isOpen) ==
    /\ overlapped' = (overlapped \/ \E r \in Slots : r # s /\ Busy(r))
    /\ opened' = Track(opened \/ isOpen, TRUE)
    /\ launches' = Track(launches, 0)
    /\ lastBody' = Track(lastBody, Undef)

\* mutant: the check looks at the browser handle
PageMissingByBrowser == browser = None

\* index.js:64, 84, 107, 129, 149, 173: if (!page) throw ...
PageMissing == page = None

\* mutant: open launches whether or not a browser is held
NeedsLaunchAlways == TRUE

\* index.js:46: if (!browser)
NeedsLaunch == browser = None

\* mutant: close goes to the driver whether or not a browser is held
BrowserSetAlways == TRUE

\* index.js:192: if (browser)
BrowserSet == browser # None

\* mutant: a zero count is let through
NoMatchNever(count) == count < 0

\* index.js:110, 151: count === 0
NoMatch(count) == count = 0

\* no session is open: the page handle is absent, or, when calls have come
\* one at a time, open was not called since close last returned
NoSession == page = None \/ (~overlapped' /\ ~opened)
NoBrowser == browser = None \/ (~overlapped' /\ ~opened)

\* driver: a handle no browser, variable or pending operation refers to
Unused(h) ==
    /\ h \notin live
    /\ h # browser /\ h # page
    /\ \A s \in Slots : calls[s].tgt # h

(*----------------------------- open ------------------------------------*)
\* index.js:45-47 and 51: up to the first await
StartOpen(s) ==
    /\ CanStart(s, "open")
    /\ Started(s, TRUE)
    /\ LET c == Begin("open", NoArg, FALSE) IN
       calls' = [calls EXCEPT ![s] =
                    IF NeedsLaunch THEN Await(c, "launch", None)
                    ELSE [c EXCEPT !.pc = "sleep"]]
    /\ UNCHANGED <<browser, page, innerHTML, live, dom, last, cvars>>

\* index.js:47-48: chromium.launch resolves; browser is set and newPage is asked for
LaunchDone(s) ==
    /\ calls[s].pc = "launch"
    /\ \E h \in Handles :
        /\ Unused(h)
        /\ \A g \in Handles : g < h => ~Unused(g)
        /\ live' = live \cup {h}
        /\ browser' = h
        /\ calls' = [calls EXCEPT ![s] = Await(@, "newPage", h)]
    /\ launches' = Keep(launches + 1, 0)
    /\ UNCHANGED <<page, innerHTML, dom, last, overlapped, opened, lastBody, cvars>>

\* index.js:48-51: browser.newPage resolves; page is set and given its timeout
NewPageDone(s) ==
    /\ calls[s].pc = "newPage"
    /\ calls[s].tgt \in live
    /\ page' = calls[s].tgt
    /\ dom' = [dom EXCEPT ![calls[s].tgt] = BodyBlank]
    /\ calls' = [calls EXCEPT ![s] = [@ EXCEPT !.pc = "sleep", !.ops = @ \cup {"setDefaultTimeout"}]]
    /\ UNCHANGED <<browser, innerHTML, live, last, overlapped, opened, launches, lastBody, cvars>>

(*----------------------------- close -----------------------------------*)
\* mutant: close forgets the page handle
CloseClearsBrowserOnly == browser' = None /\ page' = page

\* index.js:194-195
CloseClears == browser' = None /\ page' = None

\* index.js:190-193 and 198: up to the await, or the warning
StartClose(s) ==
    /\ CanStart(s, "close")
    /\ overlapped' = (overlapped \/ \E r \in Slots : r # s /\ Busy(r))
    /\ launches' = Track(launches, 0)
    /\ lastBody' = Track(lastBody, Undef)
    /\ LET c == Begin("close", NoArg, NoBrowser) IN
       IF BrowserSet
       THEN /\ calls' = [calls EXCEPT ![s] = Await(c, "close", browser)]
            /\ opened' = Track(opened, TRUE)
            /\ UNCHANGED last
       ELSE /\ last' = Outcome(c, "warning", Undef)
            /\ opened' = Track(FALSE, TRUE)
            /\ UNCHANGED calls
    /\ UNCHANGED <<browser, page, innerHTML, live, dom, cvars>>

\* index.js:193-196: browser.close resolves; the session state is cleared
CloseDone(s) ==
    /\ calls[s].pc = "close"
    /\ calls[s].tgt # None
    /\ live' = live \ {calls[s].tgt}
    /\ dom' = [dom EXCEPT ![calls[s].tgt] = BodyBlank]
    /\ CloseClears
    /\ last' = Outcome(calls[s], "ok", Undef)
    /\ calls' = [calls EXCEPT ![s] = Idle]
    /\ opened' = Keep(FALSE, TRUE)
    /\ launches' = 0
    /\ UNCHANGED <<innerHTML, overlapped, lastBody, cvars>>

(*------------------------ the six session tools -------------------------*)
\* The common opening of index.js:64-65, 84-85, 107-109, 129-130, 149-151
\* and 173-174: the precondition check, then the first driver operation.
StartOn(s, t, a, op) ==
    /\ CanStart(s, t)
    /\ Started(s, FALSE)
    /\ LET c == Begin(t, a, NoSession) IN
       IF PageMissing
       THEN /\ last' = Outcome(c, "precondition", Undef)
            /\ UNCHANGED calls
       ELSE /\ calls' = [calls EXCEPT ![s] = Await(c, op, page)]
            /\ UNCHANGED last
    /\ UNCHANGED <<browser, page, innerHTML, live, dom, cvars>>

StartNavigate(s) == \E u \in Urls : StartOn(s, "navigate", u, "goto")
StartFindLabels(s) == StartOn(s, "find_input_labels", NoArg, "innerHTML")
StartFindElement(s) == \E t \in Texts : StartOn(s, "find_element", t, "count")
StartClick(s) == \E t \in Texts : StartOn(s, "click_element", t, "click")
StartSubmit(s) == \E t \in Texts : StartOn(s, "submit_button", t, "count")
StartFill(s) == \E l \in Labels : StartOn(s, "fill_input", l, "fill")

\* index.js:66, 131, 155: await page.innerHTML("body") on the page variable
\* as it is now; a call on undefined throws a TypeError
FetchBody(s) ==
    IF page = None
    THEN /\ last' = Outcome(calls[s], "typeerror", Undef)
         /\ calls' = [calls EXCEPT ![s] = Idle]
    ELSE /\ calls' = [calls EXCEPT ![s] = Await(@, "innerHTML", page)]
         /\ UNCHANGED last

\* index.js:65-66: page.goto resolves
GotoDone(s) ==
    /\ calls[s].pc = "goto"
    /\ calls[s].tgt \in live
    /\ dom' = [dom EXCEPT ![calls[s].tgt] = Site(calls[s].arg)]
    /\ FetchBody(s)
    /\ UNCHANGED <<browser, page, innerHTML, live, overlapped, opened, launches, lastBody, cvars>>

\* index.js:130-131 and 154-155: the click resolves; page.click takes the
\* first match, a locator's click wants exactly one
ClickDone(s) ==
    /\ calls[s].pc = "click"
    /\ calls[s].tgt \in live
    /\ LET body == dom[calls[s].tgt] IN
       /\ IF calls[s].tool = "submit_button"
          THEN Matches(body, {"button"}, calls[s].arg) = 1
          ELSE Matches(body, {}, calls[s].arg) >= 1
       /\ \E b \in AfterClick(body) : dom' = [dom EXCEPT ![calls[s].tgt] = b]
    /\ FetchBody(s)
    /\ UNCHANGED <<browser, page, innerHTML, live, overlapped, opened, launches, lastBody, cvars>>

\* index.js:66-69, 131-134, 155-158: the body arrives and is sanitized into
\* the snapshot; index.js:85-94: the body arrives and its labels are read
HtmlDone(s) ==
    /\ calls[s].pc = "innerHTML"
    /\ calls[s].tgt \in live
    /\ IF calls[s].tool = "find_input_labels"
       THEN /\ UNCHANGED innerHTML
            /\ calls' = [calls EXCEPT ![s] =
                            [@ EXCEPT !.pc = "sleep", !.val = Def(LabelsOf(dom[calls[s].tgt]))]]
       ELSE /\ innerHTML' = Def(cleanHTML(dom[calls[s].tgt]))
            /\ calls' = [calls EXCEPT ![s] = [@ EXCEPT !.pc = "sleep"]]
    /\ UNCHANGED <<browser, page, live, dom, last, overlapped, opened, launches, lastBody, cvars>>

\* index.js:109-113 and 151-154: the count arrives
CountDone(s) ==
    /\ calls[s].pc = "count"
    /\ calls[s].tgt \in live
    /\ LET count == Matches(dom[calls[s].tgt],
                            IF calls[s].tool = "submit_button" THEN {"button"} ELSE {},
                            calls[s].arg)
           c == [calls[s] EXCEPT !.cnt = count]
       IN IF NoMatch(count)
          THEN /\ last' = Outcome(c, "notfound", Undef)
               /\ calls' = [calls EXCEPT ![s] = Idle]
          ELSE /\ calls' = [calls EXCEPT ![s] =
                              IF c.tool = "submit_button"
                              THEN Await(c, "click", c.tgt)
                              ELSE [c EXCEPT !.pc = "sleep"]]
               /\ UNCHANGED last
    /\ UNCHANGED <<browser, page, innerHTML, live, dom, overlapped, opened, launches, lastBody, cvars>>

\* index.js:174-176: the fill resolves
FillDone(s) ==
    /\ calls[s].pc = "fill"
    /\ calls[s].tgt \in live
    /\ LET body == dom[calls[s].tgt] IN
       /\ Matches(body, {"label"}, calls[s].arg) = 1
       /\ \E b \in AfterFill(body) : dom' = [dom EXCEPT ![calls[s].tgt] = b]
    /\ calls' = [calls EXCEPT ![s] = [@ EXCEPT !.pc = "sleep"]]
    /\ UNCHANGED <<browser, page, innerHTML, live, last, overlapped, opened, launches, lastBody, cvars>>

\* what a call that reached its closing sleep returns
Returned(c) ==
    CASE c.tool \in {"navigate", "click_element", "submit_button"} -> innerHTML
      [] c.tool = "find_element" -> Def(c.arg)
      [] c.tool = "find_input_labels" -> c.val
      [] OTHER -> Undef

\* index.js:51-52, 69-70, 94-95, 113-114, 134-135, 158-159, 176-177: the
\* closing sleep is over and the tool returns
SleepDone(s) ==
    /\ calls[s].pc = "sleep"
    /\ last' = Outcome(calls[s], "ok", Returned(calls[s]))
    /\ calls' = [calls EXCEPT ![s] = Idle]
    /\ lastBody' = IF calls[s].tool \in Mutating
                   THEN Keep(Def(dom[calls[s].tgt]), Undef) ELSE lastBody
    /\ UNCHANGED <<browser, page, innerHTML, live, dom, overlapped, opened, launches, cvars>>

\* the driver rejects the awaited operation (a timeout, a closed target, a
\* missing element); the error leaves the tool as it is
Reject(s) ==
    /\ calls[s].pc \in DriverOps
    /\ last' = Outcome(calls[s], "driver", Undef)
    /\ calls' = [calls EXCEPT ![s] = Idle]
    /\ UNCHANGED <<browser, page, innerHTML, live, dom, overlapped, opened, launches, lastBody, cvars>>

InitTools ==
    /\ browser = None
    /\ page = None
    /\ innerHTML = Undef
    /\ live = {}
    /\ dom = [h \in Handles |-> BodyBlank]
    /\ calls = [s \in Slots |-> Idle]
    /\ last = NoCall
    /\ overlapped = FALSE
    /\ opened = FALSE
    /\ launches = 0
    /\ lastBody = Undef

Init ==
    /\ InitTools
    /\ html = <<>>
    /\ out1 = Undef
    /\ out2 = Undef
    /\ cpc = "off"

Next ==
    \/ \E s \in Slots : StartOpen(s)
    \/ \E s \in Slots : LaunchDone(s)
    \/ \E s \in Slots : NewPageDone(s)
    \/ \E s \in Slots : StartClose(s)
    \/ \E s \in Slots : CloseDone(s)
    \/ \E s \in Slots : StartNavigate(s)
    \/ \E s \in Slots : StartFindLabels(s)
    \/ \E s \in Slots : StartFindElement(s)
    \/ \E s \in Slots : StartClick(s)
    \/ \E s \in Slots : StartSubmit(s)
    \/ \E s \in Slots : StartFill(s)
    \/ \E s \in Slots : GotoDone(s)
    \/ \E s \in Slots : ClickDone(s)
    \/ \E s \in Slots : HtmlDone(s)
    \/ \E s \in Slots : CountDone(s)
    \/ \E s \in Slots : FillDone(s)
    \/ \E s \in Slots : SleepDone(s)
    \/ \E s \in Slots : Reject(s)

Spec == Init /\ [][Next]_vars

(***************************************************************************)
(* Properties of the session holder and the tools                          *)
(***************************************************************************)

\* C1: a navigate, find_input_labels, find_element, click_element,
\* submit_button or fill_input call made while no session is open fails with
\* the 'Browser not opened' error, makes no driver call (it never gets as far
\* as awaiting one) and leaves browser, page and the snapshot as they were.
C1_PreconditionFails ==
    [][ /\ \A s \in Slots :
            (calls'[s].pc # "idle" /\ calls'[s].tool \in SessionTools) => ~calls'[s].pre
        /\ (last'.tool \in SessionTools /\ last'.pre)
            => (last'.status = "precondition" /\ last'.ops = {})
        /\ (calls' = calls /\ last'.tool \in SessionTools /\ last'.pre)
            => UNCHANGED <<browser, page, innerHTML, live, dom>>
      ]_vars

\* C1 witness: a navigate that came right after a completed close was refused
C1_Witness ==
    /\ ~overlapped
    /\ last.tool = "navigate" /\ last.status = "precondition" /\ last.ops = {}
    /\ last.after = "close"

\* C2: an open that follows an open that returned, with no call in between
\* and none overlapping, launches nothing and creates no page: throughout it
\* the handles and the live browsers stay what they were, it issues no driver
\* call, and one browser has been launched since the last close.
C2_SecondOpenReuses ==
    [][ \A s \in Slots :
          ( /\ calls'[s] # calls[s]
            /\ ~overlapped'
            /\ \/ calls[s].tool = "open" /\ calls[s].after = "open"
               \/ calls'[s].tool = "open" /\ calls'[s].after = "open" )
          => /\ UNCHANGED <<browser, page, live>>
             /\ browser # None
             /\ launches' = 1
             /\ calls'[s].ops = {}
             /\ calls'[s].pc = "idle"
                  => (last'.tool = "open" /\ last'.status = "ok" /\ last'.ops = {})
      ]_vars

\* C2 witness: a second open in a row has returned on an open session
C2_Witness ==
    /\ ~overlapped
    /\ last.tool = "open" /\ last.status = "ok" /\ last.after = "open"
    /\ browser # None /\ page # None

C4_CloseWithoutSession ==
    [][ /\ \A s \in Slots :
            (calls'[s].pc # "idle" /\ calls'[s].tool = "close") => ~calls'[s].pre
        /\ (last'.tool = "close" /\ last'.pre)
            => (last'.status = "warning" /\ last'.ops = {})
        /\ (calls' = calls /\ last'.tool = "close" /\ last'.pre)
            => UNCHANGED <<browser, page, innerHTML, live, dom>>
      ]_vars

\* C4 witness: a close before any open returned the warning
C4_Witness ==
    /\ ~overlapped /\ ~opened
    /\ last.tool = "close" /\ last.status = "warning" /\ last.after = "other"
    /\ browser = None /\ launches = 0

\* C5: with a session open, a find_element or submit_button whose lookup
\* counts zero matches ends there with the not-found error: it returns no
\* selector, has issued no click, and the step that ends it leaves the page
\* bodies, the snapshot and the handles as they were.
C5_ZeroMatchesFatal ==
    [][ /\ \A s \in Slots : calls'[s].cnt # 0
        /\ last'.cnt = 0
            => /\ last'.tool \in {"find_element", "submit_button"}
               /\ last'.status = "notfound"
               /\ ~last'.val.def
               /\ "click" \notin last'.ops
        /\ \A s \in Slots :
            (calls[s].pc = "count" /\ calls'[s].pc = "idle" /\ last'.cnt = 0)
            => UNCHANGED <<dom, innerHTML, browser, page, live>>
      ]_vars

\* C5 witness: a submit_button on a loaded page found no such button
C5_Witness ==
    /\ last.tool = "submit_button" /\ last.status = "notfound" /\ last.cnt = 0
    /\ page # None /\ innerHTML.def

\* C8 as stated: once calls have ended, the snapshot is the sanitized body of
\* the page as the last successful navigate, click_element, fill_input or
\* submit_button left it
C8_SnapshotIsCurrent ==
    (Quiet /\ ~overlapped /\ lastBody.def) => innerHTML = Def(cleanHTML(lastBody.v))

\* C9 as stated: with no call in progress the browser handle is set exactly
\* when the page handle is, and an open that returned its confirmation has
\* left a page for the other tools
C9_HandlesSetTogether ==
    (Quiet /\ ~overlapped)
    => /\ browser # None <=> page # None
       /\ (last.tool = "open" /\ last.status = "ok") => page # None

\* C10 as stated: never more than one browser launched and not yet closed
C10_AtMostOneBrowser == Cardinality(live) <= 1

(***************************************************************************)
(* The sanitizer harness: pick a markup, sanitize it, sanitize the result. *)
(***************************************************************************)
InitClean ==
    /\ InitTools
    /\ \E n \in 0..MaxNodes : \E f \in ForestsOfSize(n, FALSE) : html = Number(f, 1)[1]
    /\ out1 = Undef
    /\ out2 = Undef
    /\ cpc = "in"

CleanOnce ==
    /\ cpc = "in"
    /\ UNCHANGED tvars
    /\ out1' = Def(cleanHTML(html))
    /\ cpc' = "once"
    /\ UNCHANGED <<html, out2>>

CleanTwice ==
    /\ cpc = "once"
    /\ UNCHANGED tvars
    /\ out2' = Def(cleanHTML(out1.v))
    /\ cpc' = "twice"
    /\ UNCHANGED <<html, out1>>

NextClean == CleanOnce \/ CleanTwice

SpecClean == InitClean /\ [][NextClean]_vars

(***************************************************************************)
(* Properties of the sanitizer                                             *)
(***************************************************************************)
\* the id attributes of the elements of a forest
RECURSIVE ElemIds(_)
ElemIds(f) ==
    IF f = <<>> THEN {}
    ELSE (IF IsText(Head(f)) THEN {} ELSE {Head(f).id} \cup ElemIds(Head(f).kids))
         \cup ElemIds(Tail(f))

\* the ids of the elements that have a descendant from the semantic tag set
RECURSIVE WithSemantic(_)
WithSemantic(f) ==
    IF f = <<>> THEN {}
    ELSE (IF IsText(Head(f)) THEN {}
          ELSE (IF HasSemantic(Head(f)) THEN {Head(f).id} ELSE {})
               \cup WithSemantic(Head(f).kids))
         \cup WithSemantic(Tail(f))

\* n has a semantic descendant that no denylisted element lies above, n aside
RECURSIVE HasOpenSemantic(_)
HasOpenSemantic(n) ==
    \E i \in 1..Len(n.kids) :
        LET k == n.kids[i] IN
        ~IsText(k) /\ k.tag \notin Denylist /\ (k.tag \in Semantic \/ HasOpenSemantic(k))

\* the ids of the elements that are neither denylisted nor inside a denylisted
\* element and have such a descendant
RECURSIVE Undenied(_)
Undenied(f) ==
    IF f = <<>> THEN {}
    ELSE (IF IsText(Head(f)) \/ Head(f).tag \in Denylist THEN {}
          ELSE (IF HasOpenSemantic(Head(f)) THEN {Head(f).id} ELSE {})
               \cup Undenied(Head(f).kids))
         \cup Undenied(Tail(f))

\* C6 as stated: sanitizing the sanitized markup again gives the same markup
C6_Idempotent == cpc = "twice" => out2 = out1

\* C7 as stated: every element that has a descendant from the semantic tag
\* set is still there after sanitization
C7_KeepsAllWithSemantic ==
    cpc # "in" => WithSemantic(html) \subseteq ElemIds(out1.v)

\* C7, amended: every element that has a descendant from the semantic tag set
\* is still there after sanitization, unless the element or that descendant
\* is, or lies inside, a denylisted element
C7_KeepsUndenied ==
    cpc # "in" => Undenied(html) \subseteq ElemIds(out1.v)

\* C7 witness: a div with no text of its own was kept for its semantic
\* descendant while another element of the markup was removed
C7_Witness ==
    /\ cpc = "once"
    /\ \E i \in 1..Len(html) :
        /\ html[i].tag = "div"
        /\ HasOpenSemantic(html[i])
        /\ IsBlank(TextContent(html[i]))
        /\ html[i].id \in ElemIds(out1.v)
    /\ ElemIds(out1.v) # ElemIds(html)

====
